---- MODULE Spec2Model ----
(***************************************************************************)
(* A model of the ScriptSite link scripts.                                 *)
(*                                                                         *)
(*   Spec         check_univ_links.py: run() fans the collected links out  *)
(*                to one worker coroutine per link under an                *)
(*                asyncio.Semaphore; each worker runs visit_and_check and  *)
(*                appends its CheckResult; __main__ saves the two CSVs.    *)
(*   SpecClassify is_problem / reason_text as pure functions of            *)
(*                (status, title).                                         *)
(*   SpecExtract  the two link collectors: extract_univ_links              *)
(*                (check_univ_links.py) and the anchor loop of main        *)
(*                (script_site.py), run over the same anchors.             *)
(*                                                                         *)
(* Strings that the code inspects character by character (titles, hrefs,   *)
(* anchor texts) are sequences of tokens; strings it only builds or copies *)
(* are TLA+ strings.  Optional[int] is <<>> (None) or <<n>>.               *)
(***************************************************************************)
EXTENDS Integers, Sequences, FiniteSets, TLC

\* ------------------------------------------------------------------ bounds

\* Links handed to the workers are the first n of a fixed list, n in 0..NumEntries.
NumEntries == 3
\* The semaphore's size.  The script sets 8 (check_univ_links.py line 40); the
\* model runs it scaled down so that there are more links than slots.
MAX_CONCURRENCY == 2
\* Longest title given to is_problem / reason_text in SpecClassify.
MaxTitleLen == 2
\* Longest anchor list given to the collectors in SpecExtract.
MaxAnchors == 2

\* ------------------------------------------------------------- str helpers

None == <<>>
Some(n) == <<n>>

WS == " "

RECURSIVE lstrip(_)
\* str.lstrip(): drop leading whitespace tokens.
lstrip(s) == IF s # <<>> /\ Head(s) = WS THEN lstrip(Tail(s)) ELSE s

RECURSIVE rstrip(_)
\* str.rstrip(): drop trailing whitespace tokens.
rstrip(s) ==
    IF s # <<>> /\ s[Len(s)] = WS THEN rstrip(SubSeq(s, 1, Len(s) - 1)) ELSE s

\* str.strip()
strip(s) == rstrip(lstrip(s))

\* All sequences over S of length at most n.
SeqsUpTo(S, n) == UNION {[1..k -> S] : k \in 0..n}

\* ------------------------------------------------- is_problem, reason_text

is_problem_NoTitleCheck(status, title) ==
    IF status = None THEN TRUE
    ELSE IF status[1] >= 400 THEN TRUE
    ELSE FALSE

is_problem(status, title) ==
    IF status = None THEN TRUE
    ELSE IF status[1] >= 400 THEN TRUE
    ELSE IF strip(title) = <<>> THEN TRUE
    ELSE FALSE

reason_text_TitleFirst(status, title) ==
    IF status = None THEN "no response"
    ELSE IF strip(title) = <<>> THEN "empty title"
    ELSE IF status[1] >= 400 THEN "http " \o ToString(status[1])
    ELSE "unknown"

reason_text(status, title) ==
    IF status = None THEN "no response"
    ELSE IF status[1] >= 400 THEN "http " \o ToString(status[1])
    ELSE IF strip(title) = <<>> THEN "empty title"
    ELSE "unknown"

\* visit_and_check lines 106-108: ok = not is_problem(..); note = reason_text(..)
\* only when not ok, else note keeps its initial "".
Verdict(status, title) ==
    LET ok == ~is_problem(status, title)
    IN  [ok |-> ok, note |-> IF ~ok THEN reason_text(status, title) ELSE ""]

TimeoutNote_NoResponse == "no response"

\* line 110
TimeoutNote == "timeout"

\* line 112: f"exception: {type(e).__name__}: {e}"
ExceptionNote(e) == "exception: " \o e.kind \o ": " \o e.message

\* ------------------------------------------------------------------- state

VARIABLES
    \* run()
    univ_links,     \* the links collected before the fan-out (line 145)
    semaphore,      \* asyncio.Semaphore._value (line 150)
    results,        \* results: List[CheckResult] (line 151)
    pc,             \* where each worker coroutine is suspended
    loc,            \* visit_and_check's locals status/title/note/ok per worker
    openPages,      \* workers whose page (line 96) is open
    contextClosed,  \* context.close() has run (line 167)
    runState,       \* "gather" | "returned" | "saved" | "failed"
    problems,       \* line 170
    csvAll,         \* rows written to results_all.csv
    csvProblem,     \* rows written to results_problem.csv
    \* history of the run, read by the properties only
    outcome,        \* what page.goto did in the visit behind each link's
                    \* pending or appended result
    attempts,       \* page.goto calls per link
    finishOrder,    \* links in the order their visit_and_check returned
    \* SpecClassify
    in_status, in_title, verdict,
    \* SpecExtract
    anchors,        \* the anchors the page query returned, in page order
    pos,            \* anchors consumed by extract_univ_links' loop
    found,          \* found: Dict[str, UnivLink], in insertion order
    site_pos,       \* anchors consumed by script_site.main's loop
    site_results    \* results: dict keyed (school_name, href), in insertion order

runVars == <<univ_links, semaphore, results, pc, loc, openPages, contextClosed,
             runState, problems, csvAll, csvProblem, outcome, attempts,
             finishOrder>>
classifyVars == <<in_status, in_title, verdict>>
extractVars == <<anchors, pos, found, site_pos, site_results>>
vars == <<runVars, classifyVars, extractVars>>

RunIdle ==
    /\ univ_links = <<>> /\ semaphore = 0 /\ results = <<>> /\ pc = <<>>
    /\ loc = <<>> /\ openPages = {} /\ contextClosed = FALSE
    /\ runState = "idle" /\ problems = <<>> /\ csvAll = <<>> /\ csvProblem = <<>>
    /\ outcome = <<>> /\ attempts = <<>> /\ finishOrder = <<>>

ClassifyIdle == in_status = None /\ in_title = <<>> /\ verdict = <<>>

ExtractIdle ==
    anchors = <<>> /\ pos = 0 /\ found = <<>> /\ site_pos = 0 /\ site_results = <<>>

\* ---------------------------------------------------------- SpecClassify

ClassifyStatuses == {100, 200, 204, 301, 399, 400, 404, 500}
TitleTokens == {WS, "A"}

InitClassify ==
    /\ in_status \in {None} \cup {Some(s) : s \in ClassifyStatuses}
    /\ in_title \in SeqsUpTo(TitleTokens, MaxTitleLen)
    /\ verdict = <<>>
    /\ RunIdle /\ ExtractIdle

\* visit_and_check lines 106-108 applied to the drawn (status, title).
Classify ==
    /\ verdict = <<>>
    /\ verdict' = <<Verdict(in_status, in_title)>>
    /\ UNCHANGED <<in_status, in_title, runVars, extractVars>>

NextClassify == Classify

SpecClassify == InitClassify /\ [][NextClassify]_vars

\* ------------------------------------------------------------------ Spec
\* check_univ_links.py: run(), worker, visit_and_check, save_csv.

\* What extract_univ_links hands over: distinct hrefs, one name each.
LinkOf(i) == [name |-> "univ" \o ToString(i),
              href |-> "http://u" \o ToString(i) \o ".kr"]

RunStatuses == {200, 404}
RunTitles == {<<>>, <<"A">>}
RunExceptions == {[kind |-> "Error", message |-> "net::ERR_CONNECTION_REFUSED"]}

Workers == 1..Len(univ_links)

\* visit_and_check lines 92-95
InitialLocals == [status |-> None, title |-> <<>>, note |-> "", ok |-> FALSE]

\* line 115
CheckResult(item, l) ==
    [name |-> item.name, href |-> item.href, status |-> l.status,
     title |-> l.title, ok |-> l.ok, note |-> l.note]

CanAcquire_NoBlock(v) == TRUE

\* asyncio.Semaphore: `async with semaphore` (line 156) proceeds only while the
\* counter is positive.
CanAcquire(v) == v > 0

AppendResult_Overwrite(rs, r) == <<r>>

AppendResult_Front(rs, r) == <<r>> \o rs

\* line 158
AppendResult(rs, r) == Append(rs, r)

\* line 170
ProblemsOf(rs) == SelectSeq(rs, LAMBDA r : ~r.ok)

\* save_csv lines 187-189
CsvHeader == <<"name", "href", "status", "title", "ok", "note">>
CsvRow(r) ==
    <<r.name, r.href, IF r.status # None THEN ToString(r.status[1]) ELSE "",
      r.title, IF r.ok THEN "Y" ELSE "N", r.note>>
CsvFile(rows) == [header |-> CsvHeader, rows |-> [k \in 1..Len(rows) |-> CsvRow(rows[k])]]

InFlight == {i \in Workers : pc[i] \in {"new_page", "goto", "title", "close"}}
Terminal == {"done", "raised", "cancelled"}
\* Workers are stepped while run() waits in gather (line 165).
Running == runState = "gather"

Init ==
    /\ \E n \in 0..NumEntries : univ_links = [i \in 1..n |-> LinkOf(i)]
    /\ semaphore = MAX_CONCURRENCY
    /\ results = <<>>
    /\ pc = [i \in Workers |-> "start"]
    /\ loc = [i \in Workers |-> InitialLocals]
    /\ openPages = {}
    /\ contextClosed = FALSE
    /\ runState = "gather"
    /\ problems = <<>>
    /\ csvAll = <<>>
    /\ csvProblem = <<>>
    /\ outcome = [i \in Workers |-> "none"]
    /\ attempts = [i \in Workers |-> 0]
    /\ finishOrder = <<>>
    /\ ClassifyIdle /\ ExtractIdle

\* worker line 156: enter `async with semaphore`, then call visit_and_check,
\* which suspends in context.new_page() (line 96).  Tasks start in list order
\* and the semaphore wakes waiters first-in first-out.
Acquire(i) ==
    /\ Running
    /\ pc[i] = "start"
    /\ \A j \in Workers : j < i => pc[j] # "start"
    /\ CanAcquire(semaphore)
    /\ semaphore' = semaphore - 1
    /\ pc' = [pc EXCEPT ![i] = "new_page"]
    /\ UNCHANGED <<univ_links, results, loc, openPages, contextClosed, runState,
                   problems, csvAll, csvProblem, outcome, attempts, finishOrder,
                   classifyVars, extractVars>>

\* line 96 returns a page; line 98 calls page.goto and suspends.
NewPageReturns(i) ==
    /\ Running
    /\ pc[i] = "new_page"
    /\ openPages' = openPages \cup {i}
    /\ attempts' = [attempts EXCEPT ![i] = @ + 1]
    /\ pc' = [pc EXCEPT ![i] = "goto"]
    /\ UNCHANGED <<univ_links, semaphore, results, loc, contextClosed, runState,
                   problems, csvAll, csvProblem, outcome, finishOrder,
                   classifyVars, extractVars>>

\* line 96 raises: it is outside the try, so the exception leaves
\* visit_and_check and the worker; `async with` releases the semaphore.
NewPageRaises(i) ==
    /\ Running
    /\ pc[i] = "new_page"
    /\ semaphore' = semaphore + 1
    /\ pc' = [pc EXCEPT ![i] = "raised"]
    /\ UNCHANGED <<univ_links, results, loc, openPages, contextClosed, runState,
                   problems, csvAll, csvProblem, outcome, attempts, finishOrder,
                   classifyVars, extractVars>>

\* lines 98-100: goto returns a response; line 103 suspends in page.title().
GotoResponse(i, s) ==
    /\ Running
    /\ pc[i] = "goto"
    /\ loc' = [loc EXCEPT ![i].status = Some(s)]
    /\ outcome' = [outcome EXCEPT ![i] = "response"]
    /\ pc' = [pc EXCEPT ![i] = "title"]
    /\ UNCHANGED <<univ_links, semaphore, results, openPages, contextClosed,
                   runState, problems, csvAll, csvProblem, attempts, finishOrder,
                   classifyVars, extractVars>>

\* lines 98-99: goto returns None, status stays None.
GotoNoResponse(i) ==
    /\ Running
    /\ pc[i] = "goto"
    /\ outcome' = [outcome EXCEPT ![i] = "no_response"]
    /\ pc' = [pc EXCEPT ![i] = "title"]
    /\ UNCHANGED <<univ_links, semaphore, results, loc, openPages, contextClosed,
                   runState, problems, csvAll, csvProblem, attempts, finishOrder,
                   classifyVars, extractVars>>

\* lines 109-110, then the finally suspends in page.close() (line 114).
GotoTimeout(i) ==
    /\ Running
    /\ pc[i] = "goto"
    /\ loc' = [loc EXCEPT ![i].note = TimeoutNote]
    /\ outcome' = [outcome EXCEPT ![i] = "timeout"]
    /\ pc' = [pc EXCEPT ![i] = "close"]
    /\ UNCHANGED <<univ_links, semaphore, results, openPages, contextClosed,
                   runState, problems, csvAll, csvProblem, attempts, finishOrder,
                   classifyVars, extractVars>>

\* lines 111-112, then line 114.
GotoRaises(i, e) ==
    /\ Running
    /\ pc[i] = "goto"
    /\ loc' = [loc EXCEPT ![i].note = ExceptionNote(e)]
    /\ outcome' = [outcome EXCEPT ![i] = "error"]
    /\ pc' = [pc EXCEPT ![i] = "close"]
    /\ UNCHANGED <<univ_links, semaphore, results, openPages, contextClosed,
                   runState, problems, csvAll, csvProblem, attempts, finishOrder,
                   classifyVars, extractVars>>

\* lines 102-108 with the title `t` that page.title() gave (t = <<>> also
\* stands for the inner except of lines 104-105), then line 114.
TitleDone(i, t) ==
    /\ Running
    /\ pc[i] = "title"
    /\ LET v == Verdict(loc[i].status, t)
       IN  loc' = [loc EXCEPT ![i].title = t, ![i].ok = v.ok, ![i].note = v.note]
    /\ pc' = [pc EXCEPT ![i] = "close"]
    /\ UNCHANGED <<univ_links, semaphore, results, openPages, contextClosed,
                   runState, problems, csvAll, csvProblem, outcome, attempts,
                   finishOrder, classifyVars, extractVars>>

\* line 114 returns; line 115 builds the result; worker lines 157-158 append
\* it; leaving `async with` releases the semaphore.
CloseReturns(i) ==
    /\ Running
    /\ pc[i] = "close"
    /\ openPages' = openPages \ {i}
    /\ results' = AppendResult(results, CheckResult(univ_links[i], loc[i]))
    /\ finishOrder' = Append(finishOrder, i)
    /\ semaphore' = semaphore + 1
    /\ loc' = [loc EXCEPT ![i] = InitialLocals]
    /\ pc' = [pc EXCEPT ![i] = "done"]
    /\ UNCHANGED <<univ_links, contextClosed, runState, problems, csvAll,
                   csvProblem, outcome, attempts, classifyVars, extractVars>>

\* line 114 raises inside the finally: nothing catches it, the exception
\* leaves visit_and_check and the worker, no result is appended.  Whether the
\* page went away is the browser's business.
CloseRaises(i) ==
    /\ Running
    /\ pc[i] = "close"
    /\ openPages' \in {openPages, openPages \ {i}}
    /\ semaphore' = semaphore + 1
    /\ loc' = [loc EXCEPT ![i] = InitialLocals]
    /\ outcome' = [outcome EXCEPT ![i] = "none"]
    /\ pc' = [pc EXCEPT ![i] = "raised"]
    /\ UNCHANGED <<univ_links, results, contextClosed, runState, problems, csvAll,
                   csvProblem, attempts, finishOrder, classifyVars, extractVars>>

\* line 165 returns once every worker returned; lines 167-171.
GatherReturns ==
    /\ runState = "gather"
    /\ \A i \in Workers : pc[i] = "done"
    /\ contextClosed' = TRUE
    /\ problems' = ProblemsOf(results)
    /\ runState' = "returned"
    /\ UNCHANGED <<univ_links, semaphore, results, pc, loc, openPages, csvAll,
                   csvProblem, outcome, attempts, finishOrder, classifyVars,
                   extractVars>>

\* line 165: gather (return_exceptions unset) re-raises the first worker
\* exception into run(); lines 167-171 are skipped and run() raises.  gather
\* does not cancel the other workers, which keep running until run() is
\* resumed with the exception; line 192: asyncio.run then ends with that
\* exception and cancels every task still pending, and lines 193-195 never run.
\* A cancelled visit unwinds through its finally (line 114) while the browser
\* is being torn down: its page may or may not get closed.
GatherRaises ==
    /\ runState = "gather"
    /\ \E i \in Workers : pc[i] = "raised"
    /\ runState' = "failed"
    /\ pc' = [i \in Workers |-> IF pc[i] \in Terminal THEN pc[i] ELSE "cancelled"]
    /\ loc' = [i \in Workers |-> InitialLocals]
    /\ outcome' = [i \in Workers |-> IF pc[i] = "done" THEN outcome[i] ELSE "none"]
    /\ \E closed \in SUBSET (openPages \cap InFlight) : openPages' = openPages \ closed
    /\ UNCHANGED <<univ_links, semaphore, results, contextClosed, problems, csvAll,
                   csvProblem, attempts, finishOrder, classifyVars, extractVars>>

\* lines 192-194
SaveCsv ==
    /\ runState = "returned"
    /\ csvAll' = <<CsvFile(results)>>
    /\ csvProblem' = <<CsvFile(problems)>>
    /\ runState' = "saved"
    /\ UNCHANGED <<univ_links, semaphore, results, pc, loc, openPages,
                   contextClosed, problems, outcome, attempts, finishOrder,
                   classifyVars, extractVars>>

Next ==
    \/ \E i \in Workers : Acquire(i)
    \/ \E i \in Workers : NewPageReturns(i)
    \/ \E i \in Workers : NewPageRaises(i)
    \/ \E i \in Workers, s \in RunStatuses : GotoResponse(i, s)
    \/ \E i \in Workers : GotoNoResponse(i)
    \/ \E i \in Workers : GotoTimeout(i)
    \/ \E i \in Workers, e \in RunExceptions : GotoRaises(i, e)
    \/ \E i \in Workers, t \in RunTitles : TitleDone(i, t)
    \/ \E i \in Workers : CloseReturns(i)
    \/ \E i \in Workers : CloseRaises(i)
    \/ GatherReturns
    \/ GatherRaises
    \/ SaveCsv

Spec == Init /\ [][Next]_vars

\* ------------------------------------------------------- properties of Spec

Ended == runState \in {"returned", "saved", "failed"}
Returned == runState \in {"returned", "saved"}

\* The link a result belongs to (hrefs of univ_links are distinct).
EntryIndex(href) == CHOOSE i \in Workers : univ_links[i].href = href

\* Only whitespace, or nothing at all.
Blank(t) == \A k \in 1..Len(t) : t[k] = WS

\* C1: at every moment the number of workers inside visit_and_check is at
\* most the semaphore's size, also with more links than slots.
C1_ConcurrencyCap == Cardinality(InFlight) <= MAX_CONCURRENCY

C1_Witness ==
    /\ Len(univ_links) > MAX_CONCURRENCY
    /\ Cardinality(InFlight) = MAX_CONCURRENCY
    /\ \E i \in Workers : pc[i] = "start"

\* C2: when run() returns, results holds exactly one CheckResult per input
\* link (same count, each link's name and href exactly once), whatever the
\* completion order and the fetch outcomes; with no links run() returns the
\* empty list and does not raise.
C2_OneResultPerEntry ==
    /\ Returned =>
          /\ Len(results) = Len(univ_links)
          /\ \A i \in Workers :
                Cardinality({k \in 1..Len(results) :
                                /\ results[k].name = univ_links[i].name
                                /\ results[k].href = univ_links[i].href}) = 1
    /\ Len(univ_links) = 0 =>
          /\ runState # "failed"
          /\ results = <<>>
          /\ runState = "gather" => ENABLED GatherReturns

C2_Witness ==
    /\ Returned
    /\ Len(univ_links) > MAX_CONCURRENCY
    /\ finishOrder[1] # 1
    /\ \E k \in 1..Len(results) : results[k].ok
    /\ \E k \in 1..Len(results) : ~results[k].ok

\* C3 (as claimed): an exception at any step of one visit (new_page, goto,
\* title, close) never leaves the worker and never aborts the batch.
C3_Original ==
    /\ \A i \in Workers : pc[i] # "raised"
    /\ runState # "failed"

\* C4 (as claimed): whenever no response was received (goto gave None, timed
\* out or failed), the result has status absent, ok false, reason "no response".
C4_Original ==
    \A k \in 1..Len(results) :
        LET r == results[k]
            o == outcome[EntryIndex(r.href)]
        IN  o \in {"no_response", "timeout", "error"} =>
                r.status = None /\ ~r.ok /\ r.note = "no response"

\* C4 (amended): whenever no response was received, the result has status
\* absent and ok false; its reason is "no response" when goto returned no
\* response object, "timeout" when the goto timeout expired, and
\* "exception: {kind}: {message}" when goto failed otherwise.  Three links
\* answering 200 with title "A", 404, and a timeout give reasons "",
\* "http 404" and "timeout", whatever the completion order.
C4_NoResponseResults ==
    /\ \A k \in 1..Len(results) :
          LET r == results[k]
              o == outcome[EntryIndex(r.href)]
          IN  /\ o \in {"no_response", "timeout", "error"} =>
                    r.status = None /\ ~r.ok
              /\ o = "no_response" => r.note = "no response"
              /\ o = "timeout" => r.note = "timeout"
              /\ o = "error" =>
                    \E e \in RunExceptions :
                        r.note = "exception: " \o e.kind \o ": " \o e.message
    /\ (Returned /\ Len(univ_links) = 3) =>
          LET R(i) == results[CHOOSE k \in 1..3 : results[k].href = univ_links[i].href]
          IN  (/\ R(1).status = Some(200) /\ R(1).title = <<"A">>
               /\ R(2).status = Some(404)
               /\ outcome[3] = "timeout")
              => (R(1).note = "" /\ R(2).note = "http 404" /\ R(3).note = "timeout")

C4_Witness ==
    /\ Returned
    /\ Len(univ_links) = 3
    /\ finishOrder = <<2, 3, 1>>
    /\ outcome = <<"response", "response", "timeout">>
    /\ \E k \in 1..3 : results[k].status = Some(200) /\ results[k].title = <<"A">>
    /\ \E k \in 1..3 : results[k].status = Some(404)

\* C6 (as claimed): the batch ends only after every link was fetched exactly
\* once, with every slot given back.
C6_Original ==
    Ended => /\ \A i \in Workers : attempts[i] = 1
             /\ semaphore = MAX_CONCURRENCY
             /\ runState # "failed"

\* C8 (as claimed): the rows of the written file are in input order.
C8_Original ==
    runState = "saved" =>
        LET rows == csvAll[1].rows
        IN  \A p, q \in 1..Len(rows) :
                p < q => EntryIndex(rows[p][2]) < EntryIndex(rows[q][2])

\* C8 (amended): the rows of the written file are in completion order: the
\* k-th row is the result of the k-th visit to finish.
C8_CompletionOrder ==
    runState = "saved" =>
        LET rows == csvAll[1].rows
        IN  /\ Len(rows) = Len(finishOrder)
            /\ \A k \in 1..Len(rows) :
                  /\ rows[k][1] = univ_links[finishOrder[k]].name
                  /\ rows[k][2] = univ_links[finishOrder[k]].href

C8_Witness ==
    /\ runState = "saved"
    /\ Len(finishOrder) > MAX_CONCURRENCY
    /\ \E p, q \in 1..Len(finishOrder) : p < q /\ finishOrder[p] > finishOrder[q]

\* C9: every result has ok exactly when its note is empty; ok implies a
\* status below 400 and a title that is not blank; the note is never
\* "unknown"; and problems is the sub-sequence of the results that are not ok.
C9_ResultConsistent ==
    /\ \A k \in 1..Len(results) :
          LET r == results[k]
          IN  /\ r.ok <=> r.note = ""
              /\ r.ok => r.status # None /\ r.status[1] < 400 /\ ~Blank(r.title)
              /\ r.note # "unknown"
    /\ Returned =>
          LET Pos(x) == CHOOSE k \in 1..Len(results) : results[k] = x
          IN  /\ \A k \in 1..Len(problems) :
                    \E j \in 1..Len(results) : results[j] = problems[k] /\ ~results[j].ok
              /\ \A j \in 1..Len(results) :
                    ~results[j].ok => \E k \in 1..Len(problems) : problems[k] = results[j]
              /\ \A p, q \in 1..Len(problems) :
                    p < q => Pos(problems[p]) < Pos(problems[q])

C9_Witness ==
    /\ Returned
    /\ Len(problems) >= 2
    /\ Len(problems) < Len(results)
    /\ \E k \in 1..Len(results) : results[k].note = "timeout"
    /\ results[1].ok

\* C10 (as claimed): a page is open only inside a visit, so at most
\* MAX_CONCURRENCY pages are open, none once the batch has ended, and the
\* context is closed only with no visit in flight.
C10_Original ==
    /\ openPages \subseteq InFlight
    /\ Cardinality(openPages) <= MAX_CONCURRENCY
    /\ Ended => openPages = {}
    /\ contextClosed => InFlight = {}

\* ----------------------------------------------------------- SpecExtract
\* check_univ_links.py extract_univ_links and script_site.py main, lines
\* 101-118, each looping over the anchors of the page.

\* check_univ_links.py line 35 / script_site.py line 11
START_URL == <<"https://", "apply.jinhakapply.com", "/">>

QUOTE == "\""
Schemes == {"http://", "https://"}

RECURSIVE rstrip_slash(_)
\* START_URL.rstrip("/")
rstrip_slash(s) ==
    IF s # <<>> /\ s[Len(s)] = "/" THEN rstrip_slash(SubSeq(s, 1, Len(s) - 1)) ELSE s

RECURSIVE collapse_ws(_)
\* re.sub(r"\s+", " ", s)
collapse_ws(s) ==
    IF s = <<>> THEN <<>>
    ELSE IF Head(s) = WS /\ Len(s) > 1 /\ s[2] = WS THEN collapse_ws(Tail(s))
    ELSE <<Head(s)>> \o collapse_ws(Tail(s))

\* script_site.py clean_text; None is <<>> as an Optional and gives "".
clean_text(s) == collapse_ws(strip(s))

\* re.search(r"^(https?://[^/]*?\.kr)", href): the match, or <<>> for none.
kr_match(href) ==
    LET ends == {k \in 2..Len(href) :
                    /\ href[k] = ".kr"
                    /\ \A j \in 2..(k - 1) : href[j] # "/"}
    IN  IF href # <<>> /\ href[1] \in Schemes /\ ends # {}
        THEN SubSeq(href, 1, CHOOSE k \in ends : \A m \in ends : k <= m)
        ELSE <<>>

\* extract_univ_links lines 66-77: the href an anchor is filed under, <<>>
\* when the anchor is skipped (line 68).
univ_href(a) ==
    LET h1 == strip(a.href)
        h2 == IF h1 # <<>> /\ h1[1] = "/" THEN rstrip_slash(START_URL) \o h1 ELSE h1
    IN  IF h1 = <<>> THEN <<>>
        ELSE IF kr_match(h2) # <<>> THEN kr_match(h2) ELSE h2

\* extract_univ_links lines 80-86
univ_name(a) ==
    IF a.name_node # None THEN strip(a.name_node[1])
    ELSE collapse_ws(strip(a.text))

HasKey(d, k) == \E n \in 1..Len(d) : d[n].key = k

\* extract_univ_links lines 87-88
found_put(d, href, name) ==
    IF HasKey(d, href) THEN d
    ELSE Append(d, [key |-> href,
                    name |-> IF name # <<>> THEN name ELSE href, href |-> href])

\* script_site.py extract_school_name
extract_school_name(a) ==
    LET t1 == IF a.name_node # None THEN clean_text(a.name_node[1]) ELSE <<>>
        t2 == clean_text(a.text)
        v1 == IF a.title_attr # None THEN clean_text(a.title_attr[1]) ELSE <<>>
        v2 == IF a.aria_label # None THEN clean_text(a.aria_label[1]) ELSE <<>>
    IN  IF t1 # <<>> THEN t1
        ELSE IF t2 # <<>> /\ t2[1] \notin Schemes THEN t2
        ELSE IF v1 # <<>> THEN v1
        ELSE IF v2 # <<>> THEN v2
        ELSE <<>>

\* script_site.py line 115: re.sub(r'["..]', '', school_name).strip()
strip_quotes(s) == strip(SelectSeq(s, LAMBDA c : c # QUOTE))

\* script_site.py lines 116-118: results[key] = None with key = (name, href);
\* an existing key keeps its place.
site_put(d, name, href) ==
    IF HasKey(d, <<name, href>>) THEN d
    ELSE Append(d, [key |-> <<name, href>>, name |-> name, href |-> href])

Anchor(h, n, t, ta, al) ==
    [href |-> h, name_node |-> n, text |-> t, title_attr |-> ta, aria_label |-> al]

\* Anchors the page may hold.
AnchorPool ==
    { Anchor(<<"http://", "a", ".kr">>, Some(<<"X">>), <<"X">>, None, None),
      Anchor(<<"http://", "a", ".kr">>, Some(<<WS, "Y">>), <<"Y">>, None, None),
      Anchor(<<"http://", "a", ".kr", "/", "p">>, None, <<"Y", WS, WS, "X">>, None, None),
      Anchor(<<WS, "http://", "a", ".kr">>, None, <<>>, None, None),
      Anchor(<<"https://", "b", ".kr">>, None, <<"https://", "b", ".kr">>,
             Some(<<QUOTE, "X", QUOTE>>), None),
      Anchor(<<"https://", "b", ".kr">>, None, <<>>, None, Some(<<"Y">>)),
      Anchor(<<"/", "p">>, Some(<<"X">>), <<"X">>, None, None),
      Anchor(<<"/", "p">>, None, <<>>, None, None),
      Anchor(<<WS>>, None, <<"X">>, None, None),
      Anchor(<<>>, Some(<<"X">>), <<"X">>, None, None) }

InitExtract ==
    /\ anchors \in SeqsUpTo(AnchorPool, MaxAnchors)
    /\ pos = 0
    /\ found = <<>>
    /\ site_pos = 0
    /\ site_results = <<>>
    /\ RunIdle /\ ClassifyIdle

\* One pass of the loop of extract_univ_links (lines 65-88).
UnivStep ==
    /\ pos < Len(anchors)
    /\ LET a == anchors[pos + 1]
           href == univ_href(a)
       IN  found' = IF href = <<>> THEN found ELSE found_put(found, href, univ_name(a))
    /\ pos' = pos + 1
    /\ UNCHANGED <<anchors, site_pos, site_results, runVars, classifyVars>>

\* One pass of the loop of script_site.main (lines 103-118).
SiteStep ==
    /\ site_pos < Len(anchors)
    /\ LET a == anchors[site_pos + 1]
       IN  site_results' =
               IF a.href = <<>> \/ a.href[1] \notin Schemes THEN site_results
               ELSE site_put(site_results, strip_quotes(extract_school_name(a)), a.href)
    /\ site_pos' = site_pos + 1
    /\ UNCHANGED <<anchors, pos, found, runVars, classifyVars>>

NextExtract == UnivStep \/ SiteStep

SpecExtract == InitExtract /\ [][NextExtract]_vars

\* ------------------------------------------------ properties of SpecExtract

NoDuplicateUrl(d) == \A m, n \in 1..Len(d) : d[m].href = d[n].href => m = n

\* C7 (as claimed): the links a collector emits hold each url at most once;
\* of several anchors with one url the first in page order gives the name,
\* and the links keep first-seen order.
C7_Original ==
    /\ pos = Len(anchors) =>
          /\ NoDuplicateUrl(found)
          /\ \A n \in 1..Len(found) :
                LET first == CHOOSE k \in 1..Len(anchors) :
                                 /\ univ_href(anchors[k]) = found[n].href
                                 /\ \A j \in 1..(k - 1) :
                                       univ_href(anchors[j]) # found[n].href
                IN  /\ found[n].name \in {univ_name(anchors[first]), found[n].href}
                    /\ \A m \in 1..(n - 1) :
                          \E j \in 1..(first - 1) : univ_href(anchors[j]) = found[m].href
    /\ site_pos = Len(anchors) => NoDuplicateUrl(site_results)

\* -------------------------------------------- properties of SpecClassify

\* C5: for a status and a title taken from a response, status >= 400 gives
\* not ok with reason "http {status}" (blank title or not); otherwise a blank
\* title gives not ok with reason "empty title"; otherwise ok with reason "".
C5_VerdictTable ==
    (verdict # <<>> /\ in_status # None) =>
        LET st == in_status[1]
            v == verdict[1]
        IN  IF st >= 400 THEN ~v.ok /\ v.note = "http " \o ToString(st)
            ELSE IF Blank(in_title) THEN ~v.ok /\ v.note = "empty title"
            ELSE v.ok /\ v.note = ""

C5_Witness ==
    /\ verdict # <<>>
    /\ in_status = Some(404)
    /\ in_title = <<WS>>
    /\ verdict[1].note = "http 404"

====
